---- MODULE Spec2Model ----
(***************************************************************************)
(* Depth-limited tree search, as implemented three times in               *)
(*   src/src/robot_vacuum_cleaner.py   (depth_limited_search)             *)
(*   src/src/warehouse_management.py   (depth_limited_search)             *)
(*   src/src/investment_management.py  (depth_limited_search_max)         *)
(*                                                                         *)
(* A BinaryTreeNode object is identified by its position in the tree:     *)
(* the root is 1, the left child of p is 2p and the right child 2p+1.     *)
(* A search Node object is identified by its index in `heap`, the list of *)
(* all Node objects created so far.  Python's None is the empty tuple,    *)
(* and an optional reference x is the one-element tuple <<x>>.            *)
(***************************************************************************)
EXTENDS Integers, Sequences, FiniteSets

VARIABLES module, tree, goal, limit, heap, frontier, result, max_value,
          pc, returned, popped

vars == <<module, tree, goal, limit, heap, frontier, result, max_value,
          pc, returned, popped>>

(* ------------------------------ bounds --------------------------------- *)

MaxNodes == 4

MaxValue == 2

MaxLimit == 4

(* ------------------------- Python values ------------------------------- *)

None == << >>

Some(x) == <<x>>

\* A float: finite (inf = 0), math.inf (inf = 1) or -math.inf (inf = -1).
Float(x) == [inf |-> 0, fin |-> x]

PosInf == [inf |-> 1, fin |-> 0]

NegInf == [inf |-> -1, fin |-> 0]

\* a > b on floats
Gt(a, b) == IF a.inf # b.inf THEN a.inf > b.inf ELSE a.inf = 0 /\ a.fin > b.fin

\* a + k on floats, k finite
Plus(a, k) == IF a.inf # 0 THEN a ELSE Float(a.fin + k)

(* ------------------------- BinaryTreeNode ------------------------------ *)

Values == 1..MaxValue

\* The sets of positions of the binary trees rooted at p with at most n nodes.
RECURSIVE Shapes(_, _)
Shapes(p, n) ==
    IF n = 0 THEN {{}}
    ELSE {{}} \cup UNION { { {p} \cup l \cup r : l \in Shapes(2 * p, k),
                                                r \in Shapes(2 * p + 1, n - 1 - k) }
                           : k \in 0..(n - 1) }

\* Every tree of at most MaxNodes nodes, each node with a value; the empty
\* function is the absent tree (problem.initial is None).
Trees == UNION { [s -> Values] : s \in Shapes(1, MaxNodes) }

\* state.left and state.right
left(t, p) == IF 2 * p \in DOMAIN t THEN Some(2 * p) ELSE None

right(t, p) == IF 2 * p + 1 \in DOMAIN t THEN Some(2 * p + 1) ELSE None

\* problem.initial
initial(t) == IF 1 \in DOMAIN t THEN Some(1) ELSE None

(* ------------------------------ Problem -------------------------------- *)

Searches == {"robot_vacuum_cleaner", "warehouse_management"}

Modules == Searches \cup {"investment_management"}

\* A buggy variant: the right child is looked at only when there is no left one.
actions_elif(t, p) ==
    IF left(t, p) # None THEN left(t, p) ELSE right(t, p)

\* A buggy variant: the right child is appended before the left one.
actions_swapped(t, p) == right(t, p) \o left(t, p)

\* actions(state): the children that exist, left before right.
actions(t, p) == left(t, p) \o right(t, p)

\* result(state, action): the action is the child itself.
result_of(p, action) == action

\* is_goal(state): state.value == self.goal
is_goal(t, g, p) == t[p] = g

(* ------------------------------- Node ---------------------------------- *)

\* The state of a search node: a BinaryTreeNode (at its position) or the
\* string tag of a sentinel.
TreeState(p) == [tag |-> "node", at |-> p]

TagState(s) == [tag |-> s, at |-> 0]

\* Node(state, parent=None, action=None, path_cost=0.0)
Node(state, parent, action, path_cost) ==
    [state |-> state, parent |-> parent, action |-> action, path_cost |-> path_cost]

\* The module-level sentinels, the first two Node objects ever created.
failure == 1

cutoff == 2

Sentinels == <<Node(TagState("failure"), None, None, PosInf),
               Node(TagState("cutoff"), None, None, PosInf)>>

\* Node.depth(): the number of parent links up to the root.
RECURSIVE depth(_, _)
depth(h, n) == IF h[n].parent = None THEN 0 ELSE 1 + depth(h, h[n].parent[1])

\* The path cost expand gives a child: only warehouse_management passes
\* path_cost; the other two leave the constructor's default 0.0.
child_cost(m, parent_cost) ==
    IF m = "warehouse_management" THEN Plus(parent_cost, 1) ELSE Float(0)

\* expand(problem, node): one new Node per action, in the order of actions.
expand(m, t, h, n) ==
    LET s == h[n].state.at
        as == actions(t, s)
    IN  [i \in 1..Len(as) |->
            Node(TreeState(result_of(s, as[i])), Some(n), Some(as[i]),
                 child_cost(m, h[n].path_cost))]

\* The indices the nodes of a sequence get when appended to the heap.
NewRefs(h, nodes) == [i \in 1..Len(nodes) |-> Len(h) + i]

(* --------------------------- depth tests ------------------------------- *)

\* A buggy variant: off by one towards the root.
at_limit_early(d, l) == d + 1 >= l

\* A buggy variant: strict comparison, one level too deep.
at_limit_strict(d, l) == d > l

\* depth_limited_search: node.depth() >= limit
at_limit(d, l) == d >= l

\* A buggy variant: nodes at the limit are expanded too.
below_limit_inclusive(d, l) == d <= l

\* depth_limited_search_max: node.depth() < limit
below_limit(d, l) == d < l

(* ------------------------------ state ---------------------------------- *)

Init ==
    /\ module \in Modules
    /\ tree \in Trees
    /\ module \in Searches => initial(tree) # None
    /\ goal \in IF module \in Searches THEN {Some(g) : g \in Values} ELSE {None}
    /\ limit \in (-1)..MaxLimit
    /\ heap = Sentinels
    /\ frontier = << >>
    /\ result = failure
    /\ max_value = NegInf
    /\ pc = "call"
    /\ returned = None
    /\ popped = << >>

\* frontier.pop(): the last element, and the rest
Top == frontier[Len(frontier)]

Rest == SubSeq(frontier, 1, Len(frontier) - 1)

(* ----------------------- depth_limited_search -------------------------- *)

\* frontier = [Node(problem.initial)]; result = failure
SearchStart ==
    /\ pc = "call"
    /\ module \in Searches
    /\ heap' = Append(heap, Node(TreeState(initial(tree)[1]), None, None, Float(0)))
    /\ frontier' = <<Len(heap) + 1>>
    /\ result' = failure
    /\ pc' = "loop"
    /\ UNCHANGED <<module, tree, goal, limit, max_value, returned, popped>>

\* node = frontier.pop(); if problem.is_goal(node.state): return node
SearchGoal ==
    /\ pc = "loop"
    /\ module \in Searches
    /\ frontier # << >>
    /\ is_goal(tree, goal[1], heap[Top].state.at)
    /\ frontier' = Rest
    /\ popped' = Append(popped, Top)
    /\ returned' = Some(Top)
    /\ pc' = "done"
    /\ UNCHANGED <<module, tree, goal, limit, heap, result, max_value>>

\* node = frontier.pop(); not a goal; node.depth() >= limit: result = cutoff
SearchCutoff ==
    /\ pc = "loop"
    /\ module \in Searches
    /\ frontier # << >>
    /\ ~ is_goal(tree, goal[1], heap[Top].state.at)
    /\ at_limit(depth(heap, Top), limit)
    /\ frontier' = Rest
    /\ popped' = Append(popped, Top)
    /\ result' = cutoff
    /\ UNCHANGED <<module, tree, goal, limit, heap, max_value, pc, returned>>

\* node = frontier.pop(); not a goal; above the limit: push every child
SearchExpand ==
    /\ pc = "loop"
    /\ module \in Searches
    /\ frontier # << >>
    /\ ~ is_goal(tree, goal[1], heap[Top].state.at)
    /\ ~ at_limit(depth(heap, Top), limit)
    /\ LET children == expand(module, tree, heap, Top)
       IN  /\ heap' = heap \o children
           /\ frontier' = Rest \o NewRefs(heap, children)
    /\ popped' = Append(popped, Top)
    /\ UNCHANGED <<module, tree, goal, limit, result, max_value, pc, returned>>

\* the frontier is empty: return result
SearchReturn ==
    /\ pc = "loop"
    /\ module \in Searches
    /\ frontier = << >>
    /\ returned' = Some(result)
    /\ pc' = "done"
    /\ UNCHANGED <<module, tree, goal, limit, heap, frontier, result, max_value, popped>>

(* --------------------- depth_limited_search_max ------------------------ *)

\* if problem.initial is None: return None
MaxNoInitial ==
    /\ pc = "call"
    /\ module = "investment_management"
    /\ initial(tree) = None
    /\ returned' = None
    /\ pc' = "done"
    /\ UNCHANGED <<module, tree, goal, limit, heap, frontier, result, max_value, popped>>

\* frontier = [Node(problem.initial)]; max_value = -math.inf
MaxStart ==
    /\ pc = "call"
    /\ module = "investment_management"
    /\ initial(tree) # None
    /\ heap' = Append(heap, Node(TreeState(initial(tree)[1]), None, None, Float(0)))
    /\ frontier' = <<Len(heap) + 1>>
    /\ max_value' = NegInf
    /\ pc' = "loop"
    /\ UNCHANGED <<module, tree, goal, limit, result, returned, popped>>

\* node = frontier.pop(); update the maximum; expand while depth < limit
MaxStep ==
    /\ pc = "loop"
    /\ module = "investment_management"
    /\ frontier # << >>
    /\ LET v == Float(tree[heap[Top].state.at])
       IN  max_value' = IF Gt(v, max_value) THEN v ELSE max_value
    /\ IF below_limit(depth(heap, Top), limit)
       THEN LET children == expand(module, tree, heap, Top)
            IN  /\ heap' = heap \o children
                /\ frontier' = Rest \o NewRefs(heap, children)
       ELSE /\ heap' = heap
            /\ frontier' = Rest
    /\ popped' = Append(popped, Top)
    /\ UNCHANGED <<module, tree, goal, limit, result, pc, returned>>

\* return None if max_value == -math.inf else max_value
MaxReturn ==
    /\ pc = "loop"
    /\ module = "investment_management"
    /\ frontier = << >>
    /\ returned' = IF max_value = NegInf THEN None ELSE Some(max_value.fin)
    /\ pc' = "done"
    /\ UNCHANGED <<module, tree, goal, limit, heap, frontier, result, max_value, popped>>

Next ==
    \/ SearchStart
    \/ SearchGoal
    \/ SearchCutoff
    \/ SearchExpand
    \/ SearchReturn
    \/ MaxNoInitial
    \/ MaxStart
    \/ MaxStep
    \/ MaxReturn

Spec == Init /\ [][Next]_vars

(* ------------------- the tree, as the claims see it -------------------- *)

\* The number of parent links from position p up to the root.
RECURSIVE PosDepth(_)
PosDepth(p) == IF p = 1 THEN 0 ELSE 1 + PosDepth(p \div 2)

SetMax(S) == CHOOSE x \in S : \A y \in S : y <= x

SetMin(S) == CHOOSE x \in S : \A y \in S : x <= y

\* The height of a non-empty tree.
Height(t) == SetMax({PosDepth(p) : p \in DOMAIN t})

\* The positions whose node carries the goal value.
GoalPositions == {p \in DOMAIN tree : tree[p] = goal[1]}

\* The positions no deeper than l.
Within(l) == {p \in DOMAIN tree : PosDepth(p) <= l}

Searching == module \in Searches

SearchDone == Searching /\ pc = "done"

FoundNode == SearchDone /\ returned[1] \notin {failure, cutoff}

\* The tree position a search node stands for.
At(n) == heap[n].state.at

\* The search nodes created by the current call.
Created == 3..Len(heap)

\* The parent chain of n follows tree edges down from the root.
RECURSIVE RealPath(_)
RealPath(n) ==
    /\ At(n) \in DOMAIN tree
    /\ IF heap[n].parent = None
       THEN At(n) = 1
       ELSE /\ At(n) \in {2 * At(heap[n].parent[1]), 2 * At(heap[n].parent[1]) + 1}
            /\ RealPath(heap[n].parent[1])

\* Right-first pre-order of the subtree at p (at depth d), cut below depth l.
RECURSIVE PreOrder(_, _, _)
PreOrder(p, d, l) ==
    <<p>> \o (IF d < l
              THEN (IF 2 * p + 1 \in DOMAIN tree THEN PreOrder(2 * p + 1, d + 1, l) ELSE << >>)
                   \o (IF 2 * p \in DOMAIN tree THEN PreOrder(2 * p, d + 1, l) ELSE << >>)
              ELSE << >>)

\* The tree positions popped so far, in order.
PoppedAt == [i \in 1..Len(popped) |-> At(popped[i])]

IsPrefix(a, b) == Len(a) <= Len(b) /\ \A i \in 1..Len(a) : a[i] = b[i]

(* ------------------------------ claims --------------------------------- *)

\* C1: with limit >= the tree's height, depth_limited_search returns a node
\* other than failure and cutoff exactly when some node carries the goal value.
C1_FoundIffPresent ==
    (SearchDone /\ limit >= Height(tree))
        => (returned[1] \notin {failure, cutoff} <=> GoalPositions # {})

\* C1 witness: the goal sits only at the bottom of a tree of height >= 2,
\* limit equals the height, and the search returned a node.
C1_Witness ==
    /\ FoundNode
    /\ Height(tree) >= 2
    /\ limit = Height(tree)
    /\ GoalPositions # {}
    /\ \A p \in GoalPositions : PosDepth(p) = Height(tree)

\* C2 as stated: with no goal in the tree and limit >= height (the height
\* itself included), depth_limited_search returns failure.
C2_FailureFromHeight ==
    (SearchDone /\ GoalPositions = {} /\ limit >= Height(tree))
        => returned = Some(failure)

\* C2 amended: with no goal in the tree, depth_limited_search returns failure
\* when limit > height, and cutoff when limit = height.
C2_FailureAboveHeight ==
    (SearchDone /\ GoalPositions = {})
        => /\ limit > Height(tree) => returned = Some(failure)
           /\ limit = Height(tree) => returned = Some(cutoff)

\* C2 witness: a tree of height >= 1 without the goal, searched with a limit
\* above its height, gave failure.
C2_Witness ==
    /\ SearchDone
    /\ GoalPositions = {}
    /\ Height(tree) >= 1
    /\ limit > Height(tree)
    /\ returned = Some(failure)

\* C3: when the goal value occurs in the tree but only deeper than limit
\* (limit >= 0), depth_limited_search returns cutoff, never failure.
C3_CutoffWhenGoalDeeper ==
    (SearchDone /\ limit >= 0 /\ GoalPositions # {}
       /\ \A p \in GoalPositions : PosDepth(p) > limit)
        => returned = Some(cutoff)

\* C3 witness: the goal lies one or more levels below a limit >= 1 and the
\* search ended with cutoff.
C3_Witness ==
    /\ SearchDone
    /\ limit >= 1
    /\ GoalPositions # {}
    /\ \A p \in GoalPositions : PosDepth(p) > limit
    /\ returned = Some(cutoff)

\* C4: whenever depth_limited_search returns failure, no node of the tree,
\* at any depth, carries the goal value.
C4_FailureIsDefinite ==
    (SearchDone /\ returned = Some(failure)) => GoalPositions = {}

\* C4 witness: failure was returned for a tree with a right branch.
C4_Witness ==
    /\ SearchDone
    /\ returned = Some(failure)
    /\ 3 \in DOMAIN tree
    /\ Cardinality(DOMAIN tree) >= 3

\* C5: depth_limited_search_max returns None when there is no initial state,
\* and otherwise, for limit >= 0, the maximum value over the nodes at
\* depth <= limit.
C5_MaxWithinLimit ==
    (pc = "done" /\ module = "investment_management")
        => IF initial(tree) = None
           THEN returned = None
           ELSE limit >= 0 =>
                    returned = Some(SetMax({tree[p] : p \in Within(limit)}))

\* C5 witness: a node deeper than limit carries a value larger than the one
\* returned, and a node exactly at depth limit >= 1 carries the one returned.
C5_Witness ==
    /\ pc = "done"
    /\ module = "investment_management"
    /\ limit >= 1
    /\ returned # None
    /\ \E p \in DOMAIN tree : PosDepth(p) > limit /\ tree[p] > returned[1]
    /\ \E p \in DOMAIN tree : PosDepth(p) = limit /\ tree[p] = returned[1]

\* C6: in every module, a node created by expand has path_cost equal to its
\* parent's path_cost plus 1, hence equal to its depth.
C6_PathCostAccumulates ==
    \A n \in Created :
        /\ heap[n].parent # None =>
              heap[n].path_cost = Plus(heap[heap[n].parent[1]].path_cost, 1)
        /\ heap[n].path_cost = Float(depth(heap, n))

\* C7: for limit >= 0, a node returned by depth_limited_search carries the
\* goal value, its parent chain is a root-to-node path of the tree, and its
\* depth is <= limit.
C7_GoalResultSound ==
    (FoundNode /\ limit >= 0)
        => /\ tree[At(returned[1])] = goal[1]
           /\ RealPath(returned[1])
           /\ depth(heap, returned[1]) = PosDepth(At(returned[1]))
           /\ depth(heap, returned[1]) <= limit

\* C7 witness: a goal node was returned from depth 2 or more, exactly at limit,
\* while the goal value also occurs below limit.
C7_Witness ==
    /\ FoundNode
    /\ limit >= 2
    /\ depth(heap, returned[1]) = limit
    /\ \E p \in GoalPositions : PosDepth(p) > limit

\* C8: the goal node warehouse_management returns has the least path_cost
\* among the goal-carrying nodes at depth <= limit.
C8_CheapestGoal ==
    (FoundNode /\ module = "warehouse_management" /\ limit >= 0)
        => heap[returned[1]].path_cost =
               Float(SetMin({PosDepth(p) : p \in GoalPositions \cap Within(limit)}))

\* C9: for limit >= 0, every node on the frontier has depth <= limit, no
\* sentinel is on the frontier, and no node at depth >= limit was ever
\* expanded (no created node has a parent at depth >= limit).
C9_FrontierWithinLimit ==
    limit >= 0
        => /\ \A i \in 1..Len(frontier) :
                 /\ frontier[i] \notin {failure, cutoff}
                 /\ depth(heap, frontier[i]) <= limit
           /\ \A n \in Created :
                 heap[n].parent # None => depth(heap, heap[n].parent[1]) < limit

\* C9 witness: one node at depth = limit >= 1 has been popped and left
\* unexpanded while another node at that depth waits on the frontier.
C9_Witness ==
    /\ pc = "loop"
    /\ limit >= 1
    /\ \E i \in 1..Len(popped) : depth(heap, popped[i]) = limit
    /\ \E i \in 1..Len(frontier) : depth(heap, frontier[i]) = limit

\* C10: depth_limited_search pops nodes in the right-first pre-order of the
\* tree cut at depth limit, and returns the first goal node of that order,
\* which is the last node popped.
C10_RightFirstOrder ==
    (Searching /\ limit >= 0)
        => /\ IsPrefix(PoppedAt, PreOrder(1, 0, limit))
           /\ FoundNode =>
                 /\ popped[Len(popped)] = returned[1]
                 /\ \A i \in 1..(Len(popped) - 1) :
                        PreOrder(1, 0, limit)[i] \notin GoalPositions
                 /\ PreOrder(1, 0, limit)[Len(popped)] = At(returned[1])

\* C10 witness: two goal nodes lie within the limit, the one returned is in
\* the right subtree at depth 2 and the one passed over is the root's left child.
C10_Witness ==
    /\ FoundNode
    /\ Len(popped) >= 3
    /\ At(returned[1]) \in {6, 7}
    /\ 2 \in GoalPositions
    /\ limit >= 2

====
